---- MODULE Spec2Model ----
(***************************************************************************)
(* A model of the growable array `Vector<T>` of src/src/vector.rs: its     *)
(* buffer, len and capacity, the Global allocator it calls, and the        *)
(* operations push, pop, reserve, shrink, get, get_mut, the subscripts,    *)
(* reverse, swap, the quicksort behind sort_by, drop and the iterators;    *)
(* and of SlicePtr and SliceIter of src/src/slice.rs.                      *)
(*                                                                         *)
(* Spec is the array of elements of size ElemSize; ZstSpec is the array of *)
(* a zero-sized element type; ViewSpec builds an array of either by pushes *)
(* and then iterates over it or takes a SlicePtr range of it.              *)
(*                                                                         *)
(* Machine integers are scaled down to UsizeBits bits: usize arithmetic    *)
(* wraps at Modulus in a build without overflow checks and panics in a     *)
(* build with them; a Layout is rejected when its size exceeds IsizeMax.   *)
(*                                                                         *)
(* Pointer arithmetic is modelled by offsets from buffer. A grow call with *)
(* a new layout smaller than the old one is answered as realloc answers    *)
(* it (granted, the block truncated, or rejected). A call that then reads  *)
(* or writes a slot outside the allocation ends the run (kind "ub"), as    *)
(* does a sort whose recursion never returns (kind "diverge").             *)
(***************************************************************************)
EXTENDS Integers, Sequences, FiniteSets, TLC

\* ------------------------------------------------------------------ bounds
\* Width of usize in the scaled-down machine.
UsizeBits == 4
\* push is offered only while len < MaxLen.
MaxLen == 3
\* next_back() is offered until tail is MaxPast elements below head.
MaxPast == 2
\* with_capacity(n) is the constructor for n in 0..MaxInitCap.
MaxInitCap == 3

\* ------------------------------------------------------- machine arithmetic
RECURSIVE Pow2(_)
Pow2(n) == IF n = 0 THEN 1 ELSE 2 * Pow2(n - 1)

Modulus == Pow2(UsizeBits)
UsizeMax == Modulus - 1
IsizeMax == Pow2(UsizeBits - 1) - 1
Usize == 0..UsizeMax

\* size_of::<T>() of an element type that is not zero-sized.
ElemSize == 1

\* The element values pushed and written.
Values == {1, 2}
\* A slot of the allocation that holds no live element (never written, or
\* moved out by ptr::read).
Uninit == 0
\* What a read outside the allocation yields.
Wild == -1

\* NonNull::dangling()
Dangling == 0
\* The addresses the allocator hands out.
Addr == {1, 2}

\* usize::next_power_of_two without the overflow case: the least power of two
\* >= n (1 for n = 0).
RECURSIVE NextPow2From(_, _)
NextPow2From(p, n) == IF p >= n THEN p ELSE NextPow2From(2 * p, n)
NextPowerOfTwo(n) == NextPow2From(1, n)

VARIABLES
    buffer,     \* Vector.buffer: Dangling or the address of the allocation
    len,        \* Vector.len
    capacity,   \* Vector.capacity
    mem,        \* the slots of the allocation behind buffer
    heap,       \* the allocator: address -> size in bytes of the live block (0: none)
    ret,        \* what the last call returned to its caller
    phase,      \* "push": only successful pushes so far; "pop": then only pops; "other"
    pushed,     \* the values pushed while phase = "push"
    popped,     \* the values popped while phase = "pop"
    tsize,      \* size_of::<T>() of the element type T: 0 or ElemSize
    it          \* the iterator made from the array, if any

vars == <<buffer, len, capacity, mem, heap, ret, phase, pushed, popped, tsize, it>>
vec == <<buffer, len, capacity, mem>>

\* Layout::array::<T>(n): the size in bytes, or an error when it exceeds
\* isize::MAX.
LayoutOk(n) == n * tsize <= IsizeMax
LayoutSize(n) == n * tsize

\* NonNull::add(p, k) and NonNull::sub(p, k) on a pointer to T, as offsets in
\* bytes from buffer: a pointer to a zero-sized T does not move.
PtrAdd(p, k) == p + k * tsize
PtrSub(p, k) == p - k * tsize

\* The one value of a zero-sized element type.
ZstValue == 1
\* The element values of T.
ValuesOfT == IF tsize = 0 THEN {ZstValue} ELSE Values

\* The fields of a call's result; every call fills in the ones it has.
NoRet ==
    [op |-> "new", kind |-> "ok", i |-> 0, j |-> 0, val |-> 0, alloc |-> "none",
     rejected |-> FALSE, err |-> "", fate |-> "", slot |-> 0, head |-> 0, tail |-> 0, cmp |-> "",
     before |-> <<>>, vlen |-> 0, destroyed |-> <<>>, freed |-> 0]

\* What a read of a T at offset i of the buffer yields (0-based): a read of a
\* zero-sized T touches no memory.
SlotAt(i) ==
    IF tsize = 0 THEN ZstValue
    ELSE IF i >= 0 /\ i < Len(mem) THEN mem[i + 1] ELSE Wild

\* The first n slots behind buffer are not all inside the allocation m.
OutsideBlock(m, n) == tsize > 0 /\ n > Len(m)

\* The elements [0, len) as a sequence.
Elems == [k \in 1..len |-> SlotAt(k - 1)]

\* The allocation after the elements [0, len) were rewritten as s in place.
WriteBack(s) == [k \in 1..Len(mem) |-> IF k <= Len(s) THEN s[k] ELSE mem[k]]

Fill(n) == [k \in 1..n |-> Uninit]

\* The content of a block of old content m reallocated to n slots.
Resize(m, n) == IF n >= Len(m) THEN m \o Fill(n - Len(m)) ELSE SubSeq(m, 1, n)

\* ------------------------------------------------------ the Global allocator
\* An allocator answer: granted (with the block's address and the heap after
\* the call) or rejected.
Rejected == [ok |-> FALSE, addr |-> Dangling, heap |-> heap]
Granted(a, h) == [ok |-> TRUE, addr |-> a, heap |-> h]

\* Global.allocate(layout): a request of size 0 yields the dangling address
\* without a block; any other request is granted a free address or rejected.
GlobalAllocate(size) ==
    IF size = 0 THEN {Granted(Dangling, heap)}
    ELSE {Rejected} \cup {Granted(a, [heap EXCEPT ![a] = size]) : a \in {x \in Addr : heap[x] = 0}}

\* realloc of the live block at ptr to newSize bytes: in place or moved to a
\* free address, or rejected.
GlobalRealloc(ptr, newSize) ==
    {Rejected} \cup
    {Granted(a, [[heap EXCEPT ![ptr] = 0] EXCEPT ![a] = newSize]) :
        a \in {x \in Addr : x = ptr \/ heap[x] = 0}}

\* Global.grow(ptr, old_layout, new_layout): an old layout of size 0 owns no
\* block, so the request is a plain allocation.
GlobalGrow(ptr, oldSize, newSize) ==
    IF oldSize = 0 THEN GlobalAllocate(newSize) ELSE GlobalRealloc(ptr, newSize)

\* Global.shrink(ptr, old_layout, new_layout): a new layout of size 0 releases
\* the block and cannot fail.
GlobalShrink(ptr, oldSize, newSize) ==
    IF newSize = 0
    THEN {Granted(Dangling, IF oldSize = 0 THEN heap ELSE [heap EXCEPT ![ptr] = 0])}
    ELSE GlobalRealloc(ptr, newSize)

\* ------------------------------------------------------------------ reserve
\* The outcome of a reserve or shrink that left the array as it was.
Same ==
    [kind |-> "ok", err |-> "", alloc |-> "none", rejected |-> FALSE, buffer |-> buffer,
     capacity |-> capacity, mem |-> mem, heap |-> heap]
\* Layout::array(..)? failed: the call returns VectorError::LayoutError.
LayoutFailed == [Same EXCEPT !.kind = "err", !.err = "LayoutError"]
\* The allocator rejected the request of `call`: the `?` returns
\* VectorError::AllocError.
AllocFailed(call) ==
    [Same EXCEPT !.kind = "err", !.err = "AllocError", !.alloc = call, !.rejected = TRUE]
Panicked == [Same EXCEPT !.kind = "panic"]

\* Lines 75-82 of reserve: the answer g of grow either fails the call through
\* `?` before any field is assigned, or becomes the new buffer and capacity.
GrowResultCapacityFirst(g, new_capacity) ==
    IF g.ok
    THEN [Same EXCEPT !.alloc = "grow", !.buffer = g.addr, !.capacity = new_capacity,
                      !.mem = Resize(mem, LayoutSize(new_capacity)), !.heap = g.heap]
    ELSE [AllocFailed("grow") EXCEPT !.capacity = new_capacity]
GrowResult(g, new_capacity) ==
    IF g.ok
    THEN [Same EXCEPT !.alloc = "grow", !.buffer = g.addr, !.capacity = new_capacity,
                      !.mem = Resize(mem, LayoutSize(new_capacity)), !.heap = g.heap]
    ELSE AllocFailed("grow")

\* Vector::reserve(additional) in a build with (checks) or without overflow
\* checks: the set of its possible outcomes.
ReserveIn(additional, checks) ==
    LET sum1 == len + additional
        sum2 == capacity + additional
        wrapped == sum2 % Modulus
        npOverflow == wrapped > Pow2(UsizeBits - 1)
        new_capacity == IF npOverflow THEN 0 ELSE NextPowerOfTwo(wrapped)
    IN  IF checks /\ sum1 > UsizeMax THEN {Panicked}
        ELSE IF ~((sum1 % Modulus) > capacity) THEN {Same}
        ELSE IF ~LayoutOk(capacity) THEN {LayoutFailed}
        ELSE IF checks /\ (sum2 > UsizeMax \/ npOverflow) THEN {Panicked}
        ELSE IF new_capacity = 0 THEN {Same}
        ELSE IF ~LayoutOk(new_capacity) THEN {LayoutFailed}
        ELSE {GrowResult(g, new_capacity) :
                g \in GlobalGrow(buffer, LayoutSize(capacity), LayoutSize(new_capacity))}

ReserveOutcomes(additional) == ReserveIn(additional, TRUE) \cup ReserveIn(additional, FALSE)

\* Lines 91-98 of shrink.
ShrinkResultKeepsCapacity(g) ==
    IF g.ok
    THEN [Same EXCEPT !.alloc = "shrink", !.buffer = g.addr,
                      !.mem = Resize(mem, LayoutSize(len)), !.heap = g.heap]
    ELSE AllocFailed("shrink")
ShrinkResult(g) ==
    IF g.ok
    THEN [Same EXCEPT !.alloc = "shrink", !.buffer = g.addr, !.capacity = len,
                      !.mem = Resize(mem, LayoutSize(len)), !.heap = g.heap]
    ELSE AllocFailed("shrink")

\* Vector::shrink(): the set of its possible outcomes.
ShrinkOutcomes ==
    IF ~(len < capacity) THEN {Same}
    ELSE IF ~LayoutOk(capacity) \/ ~LayoutOk(len) THEN {LayoutFailed}
    ELSE {ShrinkResult(g) : g \in GlobalShrink(buffer, LayoutSize(capacity), LayoutSize(len))}

\* The program is running: no call so far failed to return or left defined
\* behaviour, and the array did not go out of scope.
Running == ret.kind \notin {"diverge", "ub", "dropping", "dropped"}

\* A call that reads or writes outside the allocation: undefined behaviour,
\* after which the run is not followed.
OutOfBounds(op) ==
    /\ ret' = [NoRet EXCEPT !.op = op, !.kind = "ub"]
    /\ UNCHANGED <<buffer, len, capacity, mem, heap>>

\* ------------------------------------------------- the push/pop scenario log
Other == phase' = "other" /\ pushed' = <<>> /\ popped' = <<>>

\* The array takes the fields of outcome o of reserve or shrink.
Take(o) == buffer' = o.buffer /\ capacity' = o.capacity /\ mem' = o.mem /\ heap' = o.heap

\* ------------------------------------------------------------------ actions
Reserve(additional) ==
    \E o \in ReserveOutcomes(additional) :
        /\ Running
        /\ UNCHANGED <<tsize, it>>
        /\ Take(o)
        /\ len' = len
        /\ ret' = [NoRet EXCEPT !.op = "reserve", !.kind = o.kind, !.err = o.err,
                                !.alloc = o.alloc, !.rejected = o.rejected,
                                !.i = additional]
        /\ Other

Shrink ==
    \E o \in ShrinkOutcomes :
        /\ Running
        /\ UNCHANGED <<tsize, it>>
        /\ Take(o)
        /\ len' = len
        /\ ret' = [NoRet EXCEPT !.op = "shrink", !.kind = o.kind, !.err = o.err,
                                !.alloc = o.alloc, !.rejected = o.rejected]
        /\ Other

\* ptr::write(buffer.add(i), value) into allocation m.
WriteAtFirst(m, i, value) == IF i < Len(m) THEN [m EXCEPT ![1] = value] ELSE m
WriteAt(m, i, value) == IF i < Len(m) THEN [m EXCEPT ![i + 1] = value] ELSE m

\* Vector::push(value): on a failed reserve the `?` returns the error and the
\* local `value` goes out of scope.
Push(value) ==
    /\ Running
    /\ UNCHANGED <<tsize, it>>
    /\ len < MaxLen
    /\ \E o \in ReserveOutcomes(1) :
        IF o.kind = "ok" /\ OutsideBlock(o.mem, len + 1)
        THEN OutOfBounds("push") /\ Other
        ELSE IF o.kind = "ok"
        THEN /\ buffer' = o.buffer /\ capacity' = o.capacity /\ heap' = o.heap
             /\ mem' = WriteAt(o.mem, len, value)
             /\ len' = len + 1
             /\ ret' = [NoRet EXCEPT !.op = "push", !.val = value, !.alloc = o.alloc,
                                     !.fate = "stored"]
             /\ IF phase = "push"
                THEN phase' = phase /\ pushed' = Append(pushed, value) /\ popped' = popped
                ELSE Other
        ELSE /\ Take(o)
             /\ len' = len
             /\ ret' = [NoRet EXCEPT !.op = "push", !.kind = o.kind, !.err = o.err,
                                     !.val = value, !.alloc = o.alloc,
                                     !.rejected = o.rejected, !.fate = "dropped"]
             /\ Other

\* The offset pop reads: self.len is decremented first (line 115), then
\* buffer.add(self.len()) is read.
PopSlotStale == len
PopSlot == len - 1

\* Vector::pop()
Pop ==
    /\ Running
    /\ UNCHANGED <<tsize, it>>
    /\ IF len = 0
       THEN /\ UNCHANGED <<buffer, len, capacity, mem, heap>>
            /\ ret' = [NoRet EXCEPT !.op = "pop", !.kind = "none"]
       ELSE IF OutsideBlock(mem, len)
       THEN OutOfBounds("pop")
       ELSE /\ len' = len - 1
            /\ mem' = WriteAt(mem, PopSlot, Uninit)
            /\ ret' = [NoRet EXCEPT !.op = "pop", !.kind = "some", !.val = SlotAt(PopSlot)]
            /\ UNCHANGED <<buffer, capacity, heap>>
    /\ IF phase \in {"push", "pop"}
       THEN /\ phase' = "pop"
            /\ pushed' = pushed
            /\ popped' = IF len = 0 THEN popped ELSE Append(popped, SlotAt(PopSlot))
       ELSE Other

\* ------------------------------------------------------------ element access
\* Vector::get(index) / Vector::get_mut(index): None when index >= len, else a
\* reference to the slot at offset index.
GetOffByOne(index) ==
    IF index > len
    THEN [kind |-> "none", slot |-> 0, val |-> 0]
    ELSE [kind |-> "some", slot |-> index, val |-> SlotAt(index)]
Get(index) ==
    IF index >= len
    THEN [kind |-> "none", slot |-> 0, val |-> 0]
    ELSE [kind |-> "some", slot |-> index, val |-> SlotAt(index)]

\* Index<usize>::index / IndexMut<usize>::index_mut: get(index).expect(..)
Expect(o) == IF o.kind = "none" THEN [o EXCEPT !.kind = "panic"] ELSE o

Returns(op, index, o) ==
    /\ Running
    /\ UNCHANGED <<tsize, it>>
    /\ ret' = [NoRet EXCEPT !.op = op, !.kind = o.kind, !.i = index, !.slot = o.slot,
                            !.val = o.val]
    /\ UNCHANGED <<buffer, len, capacity, mem, heap>>
    /\ Other

GetCall(index) == Returns("get", index, Get(index))
GetMutCall(index) == Returns("get_mut", index, Get(index))
IndexCall(index) == Returns("index", index, Expect(Get(index)))
IndexMutCall(index) == Returns("index_mut", index, Expect(Get(index)))

\* *vec.get_mut(index)? = value: a write through the reference get_mut returns.
GetMutWrite(index, value) ==
    LET o == Get(index)
    IN  /\ Running
        /\ UNCHANGED <<tsize, it>>
        /\ IF o.kind = "some" /\ OutsideBlock(mem, o.slot + 1)
           THEN OutOfBounds("get_mut_write")
           ELSE /\ mem' = IF o.kind = "some" THEN WriteAt(mem, o.slot, value) ELSE mem
                /\ ret' = [NoRet EXCEPT !.op = "get_mut_write", !.kind = o.kind,
                                        !.i = index, !.slot = o.slot, !.val = value]
                /\ UNCHANGED <<buffer, len, capacity, heap>>
        /\ Other

\* ---------------------------------------------------------- range subscript
\* RawVecPtrRange::from(&Vector): head = buffer, tail = buffer.add(len), as
\* offsets from buffer.
RawFrom == [head |-> 0, tail |-> PtrAdd(0, len)]

\* RawVecPtrRange::range(range): head.add(range.start), tail.add(range.end)
RawRange(raw, start, end) ==
    [head |-> PtrAdd(raw.head, start), tail |-> PtrAdd(raw.tail, end)]

\* NonNull::offset_from panics when T is zero-sized, and otherwise gives the
\* distance in elements.
OffsetFromPanics == tsize = 0
OffsetFrom(p, q) == (p - q) \div tsize

\* RawVecPtrRange::len(): tail.offset_from(head).unsigned_abs()
RawLen(raw) ==
    LET d == OffsetFrom(raw.tail, raw.head)
    IN  IF d < 0 THEN -d ELSE d

\* The guard of Index<Range<usize>>::index and of IndexMut<Range<usize>>::index_mut
RangePanics(start, end) == start >= len \/ end > len

\* vector[start..end] (op "index_range") and its mutable form: the view is the
\* slice from_ptr_range builds over [head, tail).
IndexRangeCall(op, start, end) ==
    /\ Running
    /\ UNCHANGED <<tsize, it>>
    /\ IF RangePanics(start, end)
       THEN ret' = [NoRet EXCEPT !.op = op, !.kind = "panic", !.i = start, !.j = end]
       ELSE LET v == RawRange(RawFrom, start, end)
            IN  ret' = [NoRet EXCEPT !.op = op, !.kind = "view", !.i = start, !.j = end,
                                     !.head = v.head, !.tail = v.tail]
    /\ UNCHANGED <<buffer, len, capacity, mem, heap>>
    /\ Other

IndexRange(start, end) == IndexRangeCall("index_range", start, end)
IndexMutRange(start, end) == IndexRangeCall("index_mut_range", start, end)

\* --------------------------------------------------- swap, reverse, quicksort
\* core::ptr::swap(head.add(i), head.add(j)) on the elements s (0-based i, j)
PtrSwap(s, i, j) == [s EXCEPT ![i + 1] = s[j + 1], ![j + 1] = s[i + 1]]

\* RawVecPtrRange::swap(i, j) past its bounds check
RawSwap(s, i, j) == IF i = j THEN s ELSE PtrSwap(s, i, j)

\* RawVecPtrRange::reverse: the loop over head < tail
RawReverseNoSwap(s, head, tail) == s
RECURSIVE RawReverse(_, _, _)
RawReverse(s, head, tail) ==
    IF head < tail
    THEN RawReverse(PtrSwap(s, head, tail - 1), head + 1, tail - 1)
    ELSE s

\* The comparators handed to sort_by: Ord::cmp ("ord", as sort() does), the
\* comparison of keys ("key", as sort_by_key does with Key), the reverse
\* order, and three that are no strict weak order.
Key(v) == v \div 2
OrdCmp(a, b) == IF a < b THEN "Less" ELSE IF a = b THEN "Equal" ELSE "Greater"
Comparators == {"ord", "key", "rev", "equal", "greater", "less"}
StrictWeak == {"ord", "key", "rev"}
Cmp(c, a, b) ==
    CASE c = "ord" -> OrdCmp(a, b)
      [] c = "key" -> OrdCmp(Key(a), Key(b))
      [] c = "rev" -> OrdCmp(b, a)
      [] c = "equal" -> "Equal"
      [] c = "greater" -> "Greater"
      [] c = "less" -> "Less"

\* The scan of quick_sort_by (lines 282-288): cursor i, index j, pivot the last
\* element of s.
RECURSIVE Scan(_, _, _, _)
Scan(s, c, i, j) ==
    IF j >= Len(s) - 1 THEN [arr |-> s, i |-> i]
    ELSE IF Cmp(c, s[j + 1], s[Len(s)]) = "Less"
         THEN Scan(RawSwap(s, i, j), c, i + 1, j + 1)
         ELSE Scan(s, c, i, j + 1)

\* Lines 280-289: the scan, then the pivot swapped to the cursor.
Partition(s, c) ==
    LET p == Scan(s, c, 0, 0)
    IN  [arr |-> RawSwap(p.arr, p.i, Len(s) - 1), i |-> p.i]

\* RawVecPtrRange::split(index): [head, head + index) and [head + index, tail)
Split(s, index) == <<SubSeq(s, 1, index), SubSeq(s, index + 1, Len(s))>>

\* RawVecPtrRange::quick_sort_by on the elements s. ret is FALSE when the
\* recursion never returns: a call on a range finds it with the content an
\* enclosing chain of calls on that same range already started from, and the
\* code being deterministic repeats that chain for ever. seen holds those
\* contents.
RECURSIVE QuickSortBy(_, _, _)
QuickSortBy(s, c, seen) ==
    IF Len(s) <= 1 THEN [arr |-> s, ret |-> TRUE]
    ELSE IF s \in seen THEN [arr |-> s, ret |-> FALSE]
    ELSE LET p == Partition(s, c)
             halves == Split(p.arr, p.i)
             left == QuickSortBy(halves[1], c, {})
         IN  IF ~left.ret
             THEN [arr |-> left.arr \o halves[2], ret |-> FALSE]
             ELSE LET right == QuickSortBy(halves[2], c,
                                           IF Len(halves[2]) = Len(s)
                                           THEN seen \cup {s} ELSE {})
                  IN  [arr |-> left.arr \o right.arr, ret |-> right.ret]

\* Vector::reverse()
Reverse ==
    /\ Running
    /\ UNCHANGED <<tsize, it>>
    /\ IF OutsideBlock(mem, len)
       THEN OutOfBounds("reverse")
       ELSE /\ mem' = WriteBack(RawReverse(Elems, RawFrom.head, RawFrom.tail))
            /\ ret' = [NoRet EXCEPT !.op = "reverse", !.before = Elems]
            /\ UNCHANGED <<buffer, len, capacity, heap>>
    /\ Other

\* Vector::swap(i, j): RawVecPtrRange::from(self).swap(i, j), which panics
\* in len() or at its bounds check.
Swap(i, j) ==
    /\ Running
    /\ UNCHANGED <<tsize, it>>
    /\ IF OffsetFromPanics \/ i >= RawLen(RawFrom) \/ j >= RawLen(RawFrom)
       THEN /\ ret' = [NoRet EXCEPT !.op = "swap", !.kind = "panic", !.i = i, !.j = j]
            /\ UNCHANGED <<buffer, len, capacity, mem, heap>>
       ELSE IF i # j /\ (OutsideBlock(mem, i + 1) \/ OutsideBlock(mem, j + 1))
       THEN OutOfBounds("swap")
       ELSE /\ mem' = WriteBack(RawSwap(Elems, i, j))
            /\ ret' = [NoRet EXCEPT !.op = "swap", !.i = i, !.j = j, !.before = Elems]
            /\ UNCHANGED <<buffer, len, capacity, heap>>
    /\ Other

\* Vector::sort_by(f), and sort() and sort_by_key(f) which call it. A sort that
\* never returns ends the run of the program (kind "diverge").
SortCall(op, c) ==
    /\ Running
    /\ UNCHANGED <<tsize, it>>
    /\ IF len > 1 /\ OutsideBlock(mem, len)
       THEN OutOfBounds(op)
       ELSE LET r == QuickSortBy(Elems, c, {})
            IN  /\ mem' = WriteBack(r.arr)
                /\ ret' = [NoRet EXCEPT !.op = op, !.cmp = c, !.before = Elems,
                                        !.kind = IF r.ret THEN "ok" ELSE "diverge"]
                /\ UNCHANGED <<buffer, len, capacity, heap>>
    /\ Other

SortBy(c) == SortCall("sort_by", c)
Sort == SortCall("sort", "ord")
SortByKey == SortCall("sort_by_key", "key")

\* --------------------------------------------------------------------- drop
\* The offsets the pop loop of drop reads and destroys, in its order: the
\* last element first.
DropOrder == [k \in 1..len |-> PtrAdd(0, len - k)]

\* Drop for Vector<T>: every element is popped and destroyed, then with
\* capacity > 0 the allocator's deallocate is called with the layout of
\* capacity elements; Global releases a block only for a layout of size > 0.
\* The guard of the deallocate call (line 175).
DropReleases == capacity > 0

DropVector(op) ==
    IF OutsideBlock(mem, len)
    THEN OutOfBounds(op)
    ELSE /\ len' = 0
         /\ mem' = <<>>
         /\ heap' = IF LayoutSize(capacity) > 0 THEN [heap EXCEPT ![buffer] = 0] ELSE heap
         /\ UNCHANGED <<buffer, capacity>>
         /\ ret' = [NoRet EXCEPT !.op = op, !.kind = "dropped", !.before = Elems,
                                 !.alloc = IF DropReleases THEN "deallocate" ELSE "none"]

\* The array goes out of scope: drop is entered with the fields as they are.
Drop ==
    /\ Running
    /\ UNCHANGED <<tsize, it>>
    /\ ret' = [NoRet EXCEPT !.op = "drop", !.kind = "dropping", !.i = len]
    /\ UNCHANGED <<buffer, len, capacity, mem, heap>>
    /\ Other

\* One step of drop: while len > 0 the pop of line 174, whose result is
\* destroyed at once; then lines 175-180, the deallocate call under the
\* guard capacity > 0.
DropStep ==
    /\ ret.kind = "dropping"
    /\ UNCHANGED <<tsize, it, phase, pushed, popped>>
    /\ IF len > 0 /\ OutsideBlock(mem, len)
       THEN OutOfBounds("drop")
       ELSE IF len > 0
       THEN /\ len' = len - 1
            /\ mem' = WriteAt(mem, PopSlot, Uninit)
            /\ ret' = [ret EXCEPT !.destroyed = Append(@, PtrAdd(0, PopSlot))]
            /\ UNCHANGED <<buffer, capacity, heap>>
       ELSE /\ heap' = IF DropReleases /\ LayoutSize(capacity) > 0
                       THEN [heap EXCEPT ![buffer] = 0] ELSE heap
            /\ mem' = IF DropReleases THEN <<>> ELSE mem
            /\ ret' = [ret EXCEPT !.kind = "dropped",
                                  !.alloc = IF DropReleases THEN "deallocate" ELSE "none",
                                  !.freed = IF DropReleases THEN 1 ELSE 0]
            /\ UNCHANGED <<buffer, len, capacity>>

\* ----------------------------------------------------------------- SlicePtr
\* SlicePtr::new(buffer, len): the range of the array's elements, its head as
\* an offset from buffer.
SliceOf == [head |-> 0, len |-> len]

\* The loop of SlicePtr::reverse (lines 129-135) on the elements s, left and
\* right as offsets.
RECURSIVE SliceReverseLoop(_, _, _)
SliceReverseLoop(s, left, right) ==
    IF left < right
    THEN SliceReverseLoop(PtrSwap(s, left, right), PtrAdd(left, 1), PtrSub(right, 1))
    ELSE s

\* SlicePtr::reverse(self) on the elements s.
SlicePtrReverse(sl, s) ==
    IF sl.len <= 1 THEN s
    ELSE SliceReverseLoop(s, sl.head, PtrAdd(sl.head, sl.len - 1))

\* SliceMutExt::reverse on the slice of the whole array.
SliceReverse ==
    /\ Running
    /\ UNCHANGED <<tsize, it>>
    /\ IF OutsideBlock(mem, len)
       THEN OutOfBounds("slice_reverse")
       ELSE /\ mem' = WriteBack(SlicePtrReverse(SliceOf, Elems))
            /\ ret' = [NoRet EXCEPT !.op = "slice_reverse", !.before = Elems]
            /\ UNCHANGED <<buffer, len, capacity, heap>>
    /\ Other

\* ------------------------------------------------------------- iterators
\* No iterator was made. An iterator is its kind, its head and tail as
\* offsets from buffer, the length n of the array it was made from, the
\* pointers next() (front) and next_back() (back) yielded so far, the number
\* of them yielded when a call first returned None (-1 before that), and for
\* a dropped owning iterator the offsets whose elements its drop destroyed.
NoIter ==
    [kind |-> "none", head |-> 0, tail |-> 0, n |-> 0, front |-> <<>>, back |-> <<>>,
     firstNone |-> -1, dropped |-> FALSE, destroyed |-> <<>>]

\* iter() ("ref"), iter_mut() ("mut") and into_iter() ("owning") of the
\* array, and the SliceIter of the SlicePtr range of its elements ("slice").
IterKinds == {"ref", "mut", "owning", "slice"}

\* The cursors of the iterator: RawVecPtrRange::from(&vector) for the three
\* iterators of the array, SlicePtr::into_iter for the slice's.
MakeIter(kind) ==
    IF kind = "slice"
    THEN [NoIter EXCEPT !.kind = kind, !.n = len, !.head = SliceOf.head,
                        !.tail = PtrAdd(SliceOf.head, SliceOf.len)]
    ELSE [NoIter EXCEPT !.kind = kind, !.n = len, !.head = RawFrom.head,
                        !.tail = RawFrom.tail]

\* RawVecPtrRange::next and ::next_back on the cursors of i: the cursors
\* after the call, whether it returned Some, and the pointer it returned.
RawNext(i) ==
    IF i.head < i.tail
    THEN [head |-> PtrAdd(i.head, 1), tail |-> i.tail, some |-> TRUE, ptr |-> i.head]
    ELSE [head |-> i.head, tail |-> i.tail, some |-> FALSE, ptr |-> 0]
RawNextBack(i) ==
    LET t == PtrSub(i.tail, 1)
    IN  [head |-> i.head, tail |-> t, some |-> t >= i.head, ptr |-> t]

\* SliceIter::next and ::next_back
SliceNext(i) ==
    IF i.head < i.tail
    THEN [head |-> PtrAdd(i.head, 1), tail |-> i.tail, some |-> TRUE, ptr |-> i.head]
    ELSE [head |-> i.head, tail |-> i.tail, some |-> FALSE, ptr |-> 0]
SliceNextBack(i) ==
    LET t == PtrSub(i.tail, 1)
    IN  [head |-> i.head, tail |-> t, some |-> t >= i.head, ptr |-> t]

\* ExactSizeIterator::len of the iterator i: VectorIter answers with the len
\* field of the array it owns, the others with |tail.offset_from(head)|.
IterLenPanics(i) == i.kind # "owning" /\ OffsetFromPanics
IterLen(i) == IF i.kind = "owning" THEN len ELSE RawLen(i)

\* The iterator after a call that answered r.
Advance(r, atFront) ==
    [it EXCEPT !.head = r.head, !.tail = r.tail,
               !.front = IF r.some /\ atFront THEN Append(@, r.ptr) ELSE @,
               !.back = IF r.some /\ ~atFront THEN Append(@, r.ptr) ELSE @,
               !.firstNone = IF ~r.some /\ @ = -1
                             THEN Len(it.front) + Len(it.back) ELSE @]

\* What the caller of next() or next_back() gets: for the owning iterator
\* the element moved out by ptr.read(), else a reference to it.
Yield(op, r) ==
    [NoRet EXCEPT !.op = op, !.kind = IF r.some THEN "some" ELSE "none",
                  !.slot = r.ptr, !.val = IF r.some THEN SlotAt(r.ptr) ELSE 0]

\* vector.iter(), vector.iter_mut(), vector.into_iter() or the slice's
\* into_iter().
IntoIter(kind) ==
    /\ Running
    /\ it.kind = "none"
    /\ it' = MakeIter(kind)
    /\ ret' = [NoRet EXCEPT !.op = "into_iter", !.head = MakeIter(kind).head,
                            !.tail = MakeIter(kind).tail]
    /\ UNCHANGED <<buffer, len, capacity, mem, heap, tsize, phase, pushed, popped>>

IterNext ==
    /\ Running
    /\ it.kind # "none"
    /\ LET r == IF it.kind = "slice" THEN SliceNext(it) ELSE RawNext(it)
       IN  it' = Advance(r, TRUE) /\ ret' = Yield("next", r)
    /\ UNCHANGED <<buffer, len, capacity, mem, heap, tsize, phase, pushed, popped>>

\* next_back is offered while tail is less than MaxPast elements below head
\* and fewer than n + MaxPast pointers came from the back.
IterNextBack ==
    /\ Running
    /\ it.kind # "none"
    /\ it.head - it.tail < MaxPast /\ Len(it.back) < it.n + MaxPast
    /\ LET r == IF it.kind = "slice" THEN SliceNextBack(it) ELSE RawNextBack(it)
       IN  it' = Advance(r, FALSE) /\ ret' = Yield("next_back", r)
    /\ UNCHANGED <<buffer, len, capacity, mem, heap, tsize, phase, pushed, popped>>

\* The owning iterator goes out of scope: its field _vector is dropped, with
\* the len the array had at into_iter().
IterDrop ==
    /\ Running
    /\ it.kind = "owning"
    /\ it' = [it EXCEPT !.dropped = TRUE, !.destroyed = DropOrder]
    /\ DropVector("drop_iter")
    /\ UNCHANGED <<tsize, phase, pushed, popped>>

\* SlicePtr::range(start..end) on the range sl.
SlicePtrRange(sl, start, end) ==
    IF ~(start <= end /\ end <= sl.len)
    THEN [panic |-> TRUE, head |-> sl.head, len |-> sl.len]
    ELSE IF tsize = 0
    THEN [panic |-> FALSE, head |-> sl.head, len |-> sl.len]
    ELSE [panic |-> FALSE, head |-> PtrAdd(sl.head, start), len |-> end - start]

\* range_ref(start..end) / range_mut(start..end) on the slice of the array.
SliceRange(start, end) ==
    LET r == SlicePtrRange(SliceOf, start, end)
    IN  /\ Running
        /\ it.kind = "none"
        /\ ret' = [NoRet EXCEPT !.op = "slice_range", !.i = start, !.j = end,
                                !.kind = IF r.panic THEN "panic" ELSE "view",
                                !.head = r.head, !.vlen = r.len]
        /\ UNCHANGED <<buffer, len, capacity, mem, heap, tsize, it>>
        /\ Other

\* A push before any iterator is made.
BuildPush(value) == it.kind = "none" /\ Push(value)

\* ---------------------------------------------------------- construction
\* Vector::new()
New ==
    /\ buffer = Dangling /\ len = 0 /\ capacity = 0 /\ mem = <<>>
    /\ heap = [a \in Addr |-> 0]
    /\ ret = NoRet

\* Vector::with_capacity(n) that returned Ok.
WithCapacity(n) ==
    /\ LayoutOk(n)
    /\ len = 0 /\ capacity = n /\ mem = Fill(LayoutSize(n))
    /\ \E a \in (IF LayoutSize(n) > 0 THEN Addr ELSE {Dangling}) :
          /\ buffer = a
          /\ heap = [x \in Addr |-> IF x = a THEN LayoutSize(n) ELSE 0]
    /\ ret = [NoRet EXCEPT !.op = "with_capacity", !.i = n,
                           !.alloc = IF LayoutSize(n) > 0 THEN "allocate" ELSE "none"]

Init ==
    /\ tsize = ElemSize /\ it = NoIter
    /\ phase = "push" /\ pushed = <<>> /\ popped = <<>>
    /\ (New \/ \E n \in 0..MaxInitCap : WithCapacity(n))

\* The indices handed to the accessors: every valid one and one past MaxLen - 1.
Indices == 0..MaxLen

\* The requests handed to reserve: small ones, and those at which len +
\* additional, capacity + additional or its next power of two leave usize.
Additionals ==
    (0..3) \cup {Pow2(UsizeBits - 1), Pow2(UsizeBits - 1) + 1} \cup ((UsizeMax - 3)..UsizeMax)

Next ==
    \/ \E additional \in Additionals : Reserve(additional)
    \/ Shrink
    \/ \E value \in Values : Push(value)
    \/ Pop
    \/ \E index \in Indices : GetCall(index)
    \/ \E index \in Indices : GetMutCall(index)
    \/ \E index \in Indices : IndexCall(index)
    \/ \E index \in Indices : IndexMutCall(index)
    \/ \E index \in Indices, value \in Values : GetMutWrite(index, value)
    \/ \E start \in Indices, end \in Indices : IndexRange(start, end)
    \/ \E start \in Indices, end \in Indices : IndexMutRange(start, end)
    \/ Reverse
    \/ SliceReverse
    \/ \E i \in Indices, j \in Indices : Swap(i, j)
    \/ \E c \in Comparators : SortBy(c)
    \/ Sort
    \/ SortByKey
    \/ Drop
    \/ DropStep

Spec == Init /\ [][Next]_vars

\* The array of a zero-sized element type.
InitZst ==
    /\ tsize = 0 /\ it = NoIter
    /\ phase = "push" /\ pushed = <<>> /\ popped = <<>>
    /\ (New \/ \E n \in 0..MaxInitCap : WithCapacity(n))

NextZst ==
    \/ \E additional \in Additionals : Reserve(additional)
    \/ Shrink
    \/ \E value \in ValuesOfT : Push(value)
    \/ Pop
    \/ \E i \in Indices, j \in Indices : Swap(i, j)
    \/ Reverse
    \/ SliceReverse
    \/ Drop
    \/ DropStep

ZstSpec == InitZst /\ [][NextZst]_vars

\* An array of either kind of element type built by pushes from new(), then
\* a slice range of it, or an iterator over it and calls of that iterator.
InitView ==
    /\ tsize \in {0, ElemSize} /\ it = NoIter
    /\ phase = "push" /\ pushed = <<>> /\ popped = <<>>
    /\ New

NextView ==
    \/ \E value \in ValuesOfT : BuildPush(value)
    \/ \E kind \in IterKinds : IntoIter(kind)
    \/ IterNext
    \/ IterNextBack
    \/ IterDrop
    \/ \E start \in Indices, end \in Indices : SliceRange(start, end)

ViewSpec == InitView /\ [][NextView]_vars

\* ----------------------------------------------------------------- helpers
SortOps == {"sort", "sort_by", "sort_by_key"}
RangeOps == {"index_range", "index_mut_range"}

\* s is non-decreasing under comparator c.
IsSortedBy(s, c) == \A k \in 1..(Len(s) - 1) : Cmp(c, s[k + 1], s[k]) # "Less"

\* s and t hold the same elements, each as often.
Count(s, v) == Cardinality({k \in 1..Len(s) : s[k] = v})
IsPermutation(s, t) ==
    /\ Len(s) = Len(t)
    /\ \A v \in Values \cup {Uninit, Wild} : Count(s, v) = Count(t, v)

\* ------------------------------------------------------------------- claims

\* C1: after n successful pushes of v0..v(n-1) and nothing else, len = n,
\* capacity >= n and get(i) returns vi for every i < n; a write through
\* get_mut(i) is what get(i) then returns, and no other index changes.
C1_PushThenGet ==
    /\ [](phase = "push" =>
            /\ len = Len(pushed)
            /\ capacity >= len
            /\ \A i \in 0..(len - 1) :
                  Get(i).kind = "some" /\ Get(i).val = pushed[i + 1])
    /\ [][(phase = "push" /\ ret'.op = "get_mut_write" /\ ret'.kind = "some") =>
            /\ len' = len /\ capacity' = capacity
            /\ \A k \in 0..(len - 1) :
                  Get(k)'.val = IF k = ret'.i THEN ret'.val ELSE Get(k).val]_vars

C1_Witness ==
    /\ phase = "push" /\ len >= 3 /\ pushed[1] # pushed[2]
    /\ ret.op = "push" /\ ret.alloc = "grow"

\* C2: n pushes followed by n pops return the pushed values in reverse order,
\* and one more pop on the then empty array returns None and leaves len and
\* capacity as they were.
C2_Lifo ==
    /\ [](phase = "pop" =>
            /\ ret.op = "pop"
            /\ Len(popped) <= Len(pushed)
            /\ len = Len(pushed) - Len(popped)
            /\ \A k \in 1..Len(popped) : popped[k] = pushed[Len(pushed) + 1 - k]
            /\ (ret.kind = "some" => ret.val = popped[Len(popped)]))
    /\ [][(phase # "other" /\ phase' = "pop" /\ Len(popped) = Len(pushed)) =>
            /\ ret'.kind = "none"
            /\ len' = len /\ capacity' = capacity]_vars

C2_Witness ==
    /\ phase = "pop" /\ ret.kind = "none"
    /\ Len(pushed) >= 3 /\ Len(popped) = Len(pushed)
    /\ pushed[1] # pushed[2]

\* C3: in every reachable state len <= capacity, and the slots [0, len) of
\* the allocation are exactly the ones holding an element.
C3_LenWithinCapacity ==
    /\ len <= capacity
    /\ \A i \in 0..(capacity - 1) : (i < len) <=> (SlotAt(i) \in Values)

\* C4: under a comparator that is a strict weak order, sort_by (and sort and
\* sort_by_key) returns with the elements a permutation of the original
\* ones, non-decreasing under the comparator.
C4_SortSorts ==
    (ret.op \in SortOps /\ ret.cmp \in StrictWeak /\ ret.kind # "ub") =>
        /\ ret.kind = "ok"
        /\ IsSortedBy(Elems, ret.cmp)
        /\ IsPermutation(Elems, ret.before)

\* C5: under every comparator, a strict weak order or not, sort_by returns,
\* with the elements a permutation of the original ones.
C5_SortTerminates ==
    (ret.op \in SortOps /\ ret.kind # "ub") =>
        (ret.kind = "ok" /\ IsPermutation(Elems, ret.before))

\* C6: a view returned by array[a..b] has length b - a, its element k is the
\* array's element a + k, and it covers no offset at or beyond len.
C6_ViewIsSubrange ==
    (ret.op \in RangeOps /\ ret.kind = "view") =>
        /\ ret.tail - ret.head = ret.j - ret.i
        /\ ret.head = ret.i
        /\ ret.tail <= len

\* C7: array[a..b] panics when a > b or b > len, and returns a view for every
\* a <= b <= len, the empty ranges included.
C7_RangePanicsIffMalformed ==
    ret.op \in RangeOps =>
        ((ret.kind = "panic") <=> (ret.i > ret.j \/ ret.j > len))

\* C8: get and get_mut return None exactly when index >= len and never abort;
\* array[index] aborts exactly when index >= len and otherwise refers to the
\* element get(index) refers to; none of them changes the array.
C8_GetVersusIndex ==
    /\ []((ret.op \in {"get", "get_mut"}) =>
            /\ ret.kind \in {"some", "none"}
            /\ (ret.kind = "none") <=> (ret.i >= len)
            /\ (ret.kind = "some" => ret.slot = ret.i))
    /\ []((ret.op \in {"index", "index_mut"}) =>
            /\ ret.kind \in {"some", "panic"}
            /\ (ret.kind = "panic") <=> (ret.i >= len)
            /\ (ret.kind = "some" => ret.slot = ret.i /\ ret.val = SlotAt(ret.i)))
    /\ [][(ret'.op \in {"get", "get_mut", "index", "index_mut"}) =>
            UNCHANGED <<buffer, len, capacity, mem, heap>>]_vars

C8_Witness ==
    /\ ret.op = "index" /\ ret.kind = "panic" /\ ret.i = len /\ len >= 2

\* C9: a push that fails because reserve failed hands the value back to the
\* caller; push never drops it.
C9_PushKeepsValue ==
    (ret.op = "push" /\ ret.kind = "err") => ret.fate # "dropped"

\* C10: when the allocator rejects the request of reserve, shrink or push, or
\* a layout computation fails, the call returns an error and buffer, len,
\* capacity and the elements are as before the call.
C10_FailureChangesNothing ==
    [][(ret'.op \in {"reserve", "shrink", "push"}
            /\ (ret'.rejected \/ ret'.err = "LayoutError")) =>
        /\ ret'.kind = "err"
        /\ UNCHANGED <<buffer, len, capacity, mem, heap>>]_vars

C10_Witness ==
    /\ ret.op = "reserve" /\ ret.rejected /\ ret.kind = "err"
    /\ len >= 2 /\ capacity >= 2

\* A reserve(additional) called in the current state leaves usize: len +
\* additional, capacity + additional or the next power of two of the latter
\* does not fit.
ReserveOverflows(additional) ==
    \/ len + additional > UsizeMax
    \/ capacity + additional > UsizeMax
    \/ capacity + additional > Pow2(UsizeBits - 1)

\* C11: a reserve(additional) without arithmetic overflow that returns Ok
\* leaves capacity >= len + additional, and len and the elements as they
\* were; when capacity was already >= len + additional nothing changes and
\* no allocator call is made (reserve(0) on the empty array of capacity 0
\* included), otherwise the new capacity is
\* next_power_of_two(old capacity + additional).
C11_ReserveGrows ==
    [][(ret'.op = "reserve" /\ ret'.kind = "ok" /\ ~ReserveOverflows(ret'.i)) =>
        /\ capacity' >= len' + ret'.i
        /\ len' = len /\ Elems' = Elems
        /\ IF capacity >= len + ret'.i
           THEN ret'.alloc = "none" /\ UNCHANGED <<buffer, capacity, mem, heap>>
           ELSE capacity' = NextPowerOfTwo(capacity + ret'.i)]_vars

\* C12: a reserve(additional) in which len + additional, capacity +
\* additional or the next power of two does not fit in usize returns an
\* allocation error and leaves the array unchanged; it never returns Ok with
\* capacity < len + additional.
C12_ReserveOverflowIsError ==
    [][ret'.op = "reserve" =>
        /\ ReserveOverflows(ret'.i) =>
              (ret'.kind = "err" /\ UNCHANGED <<buffer, len, capacity, mem, heap>>)
        /\ ret'.kind = "ok" => capacity' >= len' + ret'.i]_vars

\* C17: reverse() on the array, or on the SlicePtr range of its elements,
\* leaves at each index i < len the element that was at len - 1 - i, leaves
\* every slot at or beyond len, and len and capacity, as they were; a second
\* reverse right after it restores the original order.
ReverseOps == {"reverse", "slice_reverse"}
C17_ReverseReverses ==
    [][(ret'.op \in ReverseOps /\ ret'.kind = "ok") =>
        /\ UNCHANGED <<buffer, len, capacity, heap>>
        /\ Len(mem') = Len(mem)
        /\ \A i \in 0..(Len(mem) - 1) :
              SlotAt(i)' = IF i < len THEN SlotAt(len - 1 - i) ELSE SlotAt(i)
        /\ (ret.op \in ReverseOps /\ ret.kind = "ok") => Elems' = ret.before]_vars

C17_Witness ==
    /\ ret.op \in ReverseOps /\ ret.kind = "ok"
    /\ len = 3 /\ Len(mem) > len
    /\ Elems[1] # Elems[3] /\ ret.before = <<Elems[3], Elems[2], Elems[1]>>

\* C19: a shrink that returns Ok on an array with len < capacity leaves
\* capacity = len, and len and the elements as they were; with len =
\* capacity the call changes nothing and makes no allocator call.
C19_ShrinkToLen ==
    [][(ret'.op = "shrink" /\ ret'.kind = "ok") =>
        /\ len' = len /\ Elems' = Elems
        /\ len < capacity => capacity' = len
        /\ len = capacity =>
              (ret'.alloc = "none" /\ UNCHANGED <<buffer, capacity, mem, heap>>)]_vars

C19_Witness ==
    /\ ret.op = "shrink" /\ ret.kind = "ok" /\ ret.alloc = "shrink"
    /\ len = 2 /\ capacity = 2 /\ Elems[1] # Elems[2]

\* C14: for a zero-sized element type no call of new, with_capacity, push,
\* pop, reserve, shrink or drop invokes an allocator operation (allocate,
\* grow, shrink or deallocate), and no block is ever live, while len follows
\* the pushes and pops.
C14_ZstNeverCallsAllocator ==
    tsize = 0 =>
        /\ ret.alloc = "none"
        /\ \A a \in Addr : heap[a] = 0
        /\ phase = "push" => len = Len(pushed)
        /\ phase = "pop" => len = Len(pushed) - Len(popped)

\* C18: swap(i, j) with i, j < len exchanges the elements at i and j and
\* changes nothing else (nothing at all when i = j), a second swap(i, j)
\* right after it restores the original order, and swap aborts exactly when
\* i >= len or j >= len, then without modifying anything.
C18_SwapExchanges ==
    [][ret'.op = "swap" =>
        /\ (ret'.kind = "panic") <=> (ret'.i >= len \/ ret'.j >= len)
        /\ ret'.kind = "panic" => UNCHANGED <<buffer, len, capacity, mem, heap>>
        /\ ret'.kind = "ok" =>
              /\ UNCHANGED <<buffer, len, capacity, heap>>
              /\ Len(mem') = Len(mem)
              /\ \A k \in 0..(Len(mem) - 1) :
                    SlotAt(k)' = IF k = ret'.i THEN SlotAt(ret'.j)
                                 ELSE IF k = ret'.j THEN SlotAt(ret'.i)
                                 ELSE SlotAt(k)
              /\ (ret.op = "swap" /\ ret.kind = "ok" /\ {ret.i, ret.j} = {ret'.i, ret'.j})
                    => Elems' = ret.before]_vars

\* The pointers the iterator yielded, those from the front first.
Yielded == it.front \o it.back

\* C13: once an owning iterator was dropped, after any calls of next() and
\* next_back(), each of the n elements was either moved out by the iterator
\* or destroyed by the drop, exactly once and never both, and no block is
\* live any more.
C13_OwningIterDropsOnce ==
    (it.kind = "owning" /\ it.dropped) =>
        /\ Len(Yielded) + Len(it.destroyed) = it.n
        /\ \A k \in 0..(it.n - 1) :
              tsize > 0 => Count(Yielded, PtrAdd(0, k)) + Count(it.destroyed, PtrAdd(0, k)) = 1
        /\ \A a \in Addr : heap[a] = 0

\* C15: an iterator over n elements yields, under every interleaving of
\* next() and next_back(), the elements from the front in increasing order
\* and those from the back in decreasing order, none twice; when a call
\* first returns None exactly n were yielded, and none is yielded later.
C15_IterOrder ==
    it.kind # "none" =>
        /\ \A k \in 1..Len(it.front) : it.front[k] = PtrAdd(0, k - 1)
        /\ \A k \in 1..Len(it.back) : it.back[k] = PtrAdd(0, it.n - k)
        /\ Len(Yielded) <= it.n
        /\ it.firstNone # -1 => (it.firstNone = it.n /\ Len(Yielded) = it.n)

\* C16: at every point of the life of an iterator, the calls after a
\* returned None included, len() is the number of elements not yet yielded
\* and head <= tail.
C16_IterLen ==
    (it.kind # "none" /\ ~it.dropped) =>
        /\ ~IterLenPanics(it)
        /\ IterLen(it) = it.n - Len(Yielded)
        /\ it.head <= it.tail

\* C20: SlicePtr::range(start..end) on a range of length len aborts exactly
\* when start > end or end > len; otherwise the result has length end -
\* start and its element k is the element start + k of the original, and
\* for a zero-sized element type it has the sentinel head and the length
\* end - start as well.
C20_SliceRange ==
    ret.op = "slice_range" =>
        /\ (ret.kind = "panic") <=> (ret.i > ret.j \/ ret.j > len)
        /\ ret.kind = "view" =>
              /\ ret.vlen = ret.j - ret.i
              /\ ret.head = IF tsize = 0 THEN 0 ELSE ret.i

\* C21: dropping the array in any state destroys every element of [0, len)
\* exactly once, the last one first and all of them while the block is
\* still live, and then calls deallocate exactly once when capacity > 0 and
\* not at all when capacity = 0; afterwards no block is live.
C21_DropDestroysThenReleases ==
    /\ [][(ret'.op = "drop" /\ ret.kind # "dropping" /\ ret'.kind = "dropping") =>
            /\ ret'.i = len /\ ret'.destroyed = <<>> /\ ret'.freed = 0
            /\ UNCHANGED <<buffer, len, capacity, mem, heap>>]_vars
    /\ [][(ret.kind = "dropping" /\ ret'.kind = "dropping") =>
            /\ len' = len - 1
            /\ SlotAt(len - 1) \in ValuesOfT
            /\ ret'.destroyed = Append(ret.destroyed, PtrAdd(0, len - 1))
            /\ UNCHANGED <<buffer, capacity, heap>>]_vars
    /\ []((ret.op = "drop" /\ ret.kind = "dropping") =>
            /\ ret.freed = 0
            /\ LayoutSize(capacity) > 0 => (buffer \in Addr /\ heap[buffer] = LayoutSize(capacity)))
    /\ []((ret.op = "drop" /\ ret.kind = "dropped") =>
            /\ len = 0
            /\ ret.destroyed = [k \in 1..ret.i |-> PtrAdd(0, ret.i - k)]
            /\ ret.freed = IF capacity > 0 THEN 1 ELSE 0
            /\ \A a \in Addr : heap[a] = 0)

\* The blocks the allocator holds live.
LiveBlocks == {a \in Addr : heap[a] > 0}
\* The allocator calls that are passed a block and its layout.
BlockCalls == {"grow", "shrink", "deallocate"}

\* C22: for an element type of non-zero size, while the array exists no block
\* is live when capacity = 0 and exactly one block, at buffer and sized for
\* capacity elements, is live when capacity > 0; every grow, shrink and
\* deallocate call is passed that live block and the layout of capacity
\* elements, never the dangling sentinel; after drop no block is live.
C22_OneLiveBlock ==
    /\ [](ret.kind # "dropped" =>
            IF capacity = 0 THEN LiveBlocks = {}
            ELSE /\ buffer \in Addr
                 /\ LiveBlocks = {buffer}
                 /\ heap[buffer] = LayoutSize(capacity))
    /\ [](ret.kind = "dropped" => LiveBlocks = {})
    /\ [][ret'.alloc \in BlockCalls =>
            /\ buffer # Dangling
            /\ buffer \in LiveBlocks
            /\ heap[buffer] = LayoutSize(capacity)]_vars

\* The operations claim C23 names as never decreasing capacity.
KeepOps ==
    {"push", "pop", "reserve", "get", "get_mut", "get_mut_write", "index", "index_mut",
     "reverse", "swap"} \cup SortOps

\* C23: once capacity > 0, the only call before drop after which capacity is
\* 0 is shrink made while len = 0; push, pop, reserve, get, reverse, swap and
\* sort never decrease capacity; and a pop that returns changes only len: no
\* allocator call, buffer, capacity and the block as they were, the elements
\* below the new len untouched.
C23_CapacityNeverDecreases ==
    /\ [][(capacity > 0 /\ capacity' = 0) => (ret'.op = "shrink" /\ len = 0)]_vars
    /\ [][ret'.op \in KeepOps => capacity' >= capacity]_vars
    /\ [][(ret'.op = "pop" /\ ret'.kind \in {"some", "none"}) =>
            /\ ret'.alloc = "none"
            /\ UNCHANGED <<buffer, capacity, heap>>
            /\ len' = IF len = 0 THEN 0 ELSE len - 1
            /\ \A k \in 0..(len' - 1) : SlotAt(k)' = SlotAt(k)]_vars

\* C24: in the quick_sort_by step on a range of n >= 2 elements (here the
\* outermost one, on the whole array as the sort found it), after the scan
\* and the final swap the pivot, the last element, is at the cursor index i,
\* every element before i compares Less than the pivot and none after i
\* does, and the two recursive calls get [0, i) and [i + 1, n), both without
\* the pivot and so both shorter than n.
C24_PartitionStep ==
    (ret.op \in SortOps /\ ret.kind \in {"ok", "diverge"} /\ Len(ret.before) >= 2) =>
        LET s == ret.before
            n == Len(s)
            pivot == s[n]
            p == Partition(s, ret.cmp)
            halves == Split(p.arr, p.i)
        IN  /\ p.arr[p.i + 1] = pivot
            /\ \A k \in 0..(p.i - 1) : Cmp(ret.cmp, p.arr[k + 1], pivot) = "Less"
            /\ \A k \in (p.i + 1)..(n - 1) : Cmp(ret.cmp, p.arr[k + 1], pivot) # "Less"
            /\ halves[1] = SubSeq(p.arr, 1, p.i)
            /\ halves[2] = SubSeq(p.arr, p.i + 2, n)
            /\ Len(halves[1]) < n
            /\ Len(halves[2]) < n

====
